---- MODULE Spec2Model ----
(***************************************************************************)
(* A model of benchmark_plot.py: main runs two iperf3 measurement sessions *)
(* one after the other (server spawn, warm-up, client spawn, fixed wait,   *)
(* parse of the client's JSON output, server terminate) and then plots the *)
(* two series or prints a no-data message.                                 *)
(*                                                                         *)
(* The position of main is the number of the source line it is about to    *)
(* execute.  The iperf3 processes are the environment: a client closes its *)
(* output at a moment of its own choosing with a document of its own       *)
(* choosing, a server may die by itself.                                   *)
(*                                                                         *)
(* Lines 150 and 163 read the names server1 and server2, which main never  *)
(* assigns: they are looked up in the module's namespace.  The file binds  *)
(* neither, so run as a script main ends at line 150 with NameError; a     *)
(* caller that imports the module can bind them before calling main.  The  *)
(* set of names bound when main is called is therefore an input (globals), *)
(* and everything past line 150 is reached only with server1 bound.        *)
(*                                                                         *)
(* Numbers.  bits_per_second values are integers (bit/s).  A Gbit/s value  *)
(* (a Python float) is held in fixed point as a count of Quantum bit/s     *)
(* (0.001 Gbit/s); the documents carry multiples of Quantum, so the        *)
(* division by 1e9 is exact in this representation.  The y-axis bounds are *)
(* held in tenths of that unit (0.0001 Gbit/s), so 0.8 * x and 1.2 * x are *)
(* exact too.                                                              *)
(***************************************************************************)
EXTENDS Integers, Sequences, FiniteSets, TLC

\* ------------------------------------------------------------------ bounds
\* Longest list of interval records of a document given to the parser alone.
MaxRecords == 3
\* Longest list of interval records a client prints in a run of main.
MaxMainRecords == 2
\* Largest duration typed at the prompt.
MaxDuration == 2
\* Longest series handed to plot_bandwidth alone.
MaxSeries == 2

\* --------------------------------------------------------------- constants
\* 1e9 of line 72: bits per second in one Gbit/s.
Giga == 1000000000
\* bit/s in one fixed-point unit of a Gbit/s value (0.001 Gbit/s).
Quantum == Giga \div 1000

Sessions == {1, 2}

Max(a, b) == IF a >= b THEN a ELSE b
Min(a, b) == IF a <= b THEN a ELSE b

RECURSIVE SeqMin(_)
SeqMin(s) == IF Len(s) = 1 THEN s[1] ELSE Min(s[1], SeqMin(Tail(s)))
RECURSIVE SeqMax(_)
SeqMax(s) == IF Len(s) = 1 THEN s[1] ELSE Max(s[1], SeqMax(Tail(s)))

SeqsUpTo(S, n) == UNION {[1..k -> S] : k \in 0..n}

\* ------------------------------------------------- the client's output text
(***************************************************************************)
(* One interval record of the document, by the JSON types the parser's     *)
(* steps depend on:                                                        *)
(*   elem  "object" | "other"       the list element is a JSON object      *)
(*   sum   "object" | "absent" | "scalar"   its "sum" member               *)
(*   field "number" | "absent" | "other"    sum's "bits_per_second" member *)
(*   bps   the number, in bit/s                                            *)
(***************************************************************************)
BpsValues == {0, 5 * Quantum, 1000 * Quantum}

Sample(b) == [elem |-> "object", sum |-> "object", field |-> "number", bps |-> b]
NoField == [elem |-> "object", sum |-> "object", field |-> "absent", bps |-> 0]
NoSum == [elem |-> "object", sum |-> "absent", field |-> "absent", bps |-> 0]
NotObject == [elem |-> "other", sum |-> "absent", field |-> "absent", bps |-> 0]
SumScalar == [elem |-> "object", sum |-> "scalar", field |-> "absent", bps |-> 0]
BadValue == [elem |-> "object", sum |-> "object", field |-> "other", bps |-> 0]

WellFormedRecords == {Sample(b) : b \in BpsValues} \cup {NoField, NoSum}
IntervalRecords == WellFormedRecords \cup {NotObject, SumScalar, BadValue}

(***************************************************************************)
(* The captured output:                                                    *)
(*   text      "json" (json.loads accepts it) | "empty" | "garbage" (text  *)
(*             json.loads rejects) | "badutf8" (bytes that are not UTF-8)  *)
(*   top       "object" | "other"     the top-level JSON value             *)
(*   intervals "list" | "absent" | "scalar"   its "intervals" member       *)
(*   recs      the elements of that list                                   *)
(***************************************************************************)
Doc(t, top, iv, recs) == [text |-> t, top |-> top, intervals |-> iv, recs |-> recs]

NoOutput == Doc("none", "other", "absent", <<>>)
EmptyText == Doc("empty", "other", "absent", <<>>)
GarbageText == Doc("garbage", "other", "absent", <<>>)
BadUtf8 == Doc("badutf8", "other", "absent", <<>>)
TopNotObject == Doc("json", "other", "absent", <<>>)
NoIntervals == Doc("json", "object", "absent", <<>>)
IntervalsScalar == Doc("json", "object", "scalar", <<>>)
Intervals(recs) == Doc("json", "object", "list", recs)

Docs(n) ==
    {EmptyText, GarbageText, BadUtf8, TopNotObject, NoIntervals, IntervalsScalar}
        \cup {Intervals(r) : r \in SeqsUpTo(IntervalRecords, n)}

\* A document of the expected schema: an object holding a list of interval
\* objects whose "sum" is an object and whose bits_per_second, if any, is a
\* number.
Decodable(d) ==
    /\ d.text = "json" /\ d.top = "object" /\ d.intervals = "list"
    /\ \A i \in 1..Len(d.recs) : d.recs[i] \in WellFormedRecords

HasField(r) == r.sum = "object" /\ r.field # "absent"

\* -------------------------------------------------------- parse_iperf_output
\* Line 72: bits_per_second / 1e9, in units of 0.001 Gbit/s.
ToMbit(bps) == bps \div (Quantum \div 1000)
ToGbit(bps) == bps \div Quantum

\* Line 74: the index recorded with a sample, from enumerate's idx.
DenseIndex(idx, timestamps) == Len(timestamps) + 1
SampleIndex(idx, timestamps) == idx + 1

Returned(ts, bw, diag) ==
    [raised |-> "none", timestamps |-> ts, bandwidths |-> bw, printed |-> diag]
Raised(e) ==
    [raised |-> e, timestamps |-> <<>>, bandwidths |-> <<>>, printed |-> FALSE]

\* The loop with timestamps.append outside the test of line 70.
RECURSIVE ParseLoopUnpaired(_, _, _, _)
ParseLoopUnpaired(recs, idx, timestamps, bandwidths) ==
    IF idx >= Len(recs) THEN Returned(timestamps, bandwidths, FALSE)
    ELSE LET interval == recs[idx + 1] IN
        IF interval.elem # "object" THEN Raised("AttributeError")
        ELSE IF interval.sum = "scalar" THEN Raised("TypeError")
        ELSE IF HasField(interval) THEN
            IF interval.field # "number" THEN Raised("TypeError")
            ELSE ParseLoopUnpaired(recs, idx + 1,
                                   Append(timestamps, SampleIndex(idx, timestamps)),
                                   Append(bandwidths, ToGbit(interval.bps)))
        ELSE ParseLoopUnpaired(recs, idx + 1,
                               Append(timestamps, SampleIndex(idx, timestamps)),
                               bandwidths)

\* Lines 68-75: the loop over enumerate(data.get("intervals", [])).
RECURSIVE ParseLoop(_, _, _, _)
ParseLoop(recs, idx, timestamps, bandwidths) ==
    IF idx >= Len(recs) THEN Returned(timestamps, bandwidths, FALSE)
    ELSE LET interval == recs[idx + 1] IN
        IF interval.elem # "object" THEN Raised("AttributeError")
        ELSE IF interval.sum = "scalar" THEN Raised("TypeError")
        ELSE IF HasField(interval) THEN
            IF interval.field # "number" THEN Raised("TypeError")
            ELSE ParseLoop(recs, idx + 1,
                           Append(timestamps, SampleIndex(idx, timestamps)),
                           Append(bandwidths, ToGbit(interval.bps)))
        ELSE ParseLoop(recs, idx + 1, timestamps, bandwidths)

\* Lines 54-78.  Only json.JSONDecodeError is caught.
parse_iperf_output(doc) ==
    IF doc.text = "badutf8" THEN Raised("UnicodeDecodeError")
    ELSE IF doc.text # "json" THEN Returned(<<>>, <<>>, TRUE)
    ELSE IF doc.top # "object" THEN Raised("AttributeError")
    ELSE IF doc.intervals = "absent" THEN Returned(<<>>, <<>>, FALSE)
    ELSE IF doc.intervals = "scalar" THEN Raised("TypeError")
    ELSE ParseLoop(doc.recs, 0, <<>>, <<>>)

\* ------------------------------------------------------------ plot_bandwidth
\* Line 95: the floor 0.01 Gbit/s, in units of 0.0001 Gbit/s.
YFloor == 10 * ToGbit(Giga \div 100)

\* Lines 91 and 95: max(min_bandwidth * 0.8, 0.01), in units of 0.0001 Gbit/s.
YLowerNoFloor(bandwidths1, bandwidths2) ==
    8 * Min(SeqMin(bandwidths1), SeqMin(bandwidths2))
YLower(bandwidths1, bandwidths2) ==
    Max(8 * Min(SeqMin(bandwidths1), SeqMin(bandwidths2)), YFloor)

\* Lines 92 and 96: max_bandwidth * 1.2, in units of 0.0001 Gbit/s.
YUpper(bandwidths1, bandwidths2) ==
    12 * Max(SeqMax(bandwidths1), SeqMax(bandwidths2))

NoYLim == [raised |-> "none", set |-> FALSE, lo |-> 0, hi |-> 0]

\* Lines 80-133: the y-axis range given to plt.ylim and np.logspace; min() of
\* an empty list (lines 82 and 86) raises ValueError.
plot_bandwidth(timestamps1, bandwidths1, timestamps2, bandwidths2) ==
    IF bandwidths1 = <<>> \/ bandwidths2 = <<>>
    THEN [NoYLim EXCEPT !.raised = "ValueError"]
    ELSE [raised |-> "none", set |-> TRUE,
          lo |-> YLower(bandwidths1, bandwidths2),
          hi |-> YUpper(bandwidths1, bandwidths2)]

\* ---------------------------------------------------------------------- main
VARIABLES
    pc,          \* the line main is about to execute (or is blocked in)
    raised,      \* the exception that ended main at line pc, or "none"
    globals,     \* the names bound in the module's namespace when main runs
    locals,      \* main's configuration variables, lines 137-147
    duration,    \* line 139
    ticks,       \* iterations left of the progress loop, lines 156 and 169
    server,      \* per session: the server process
    serverNs,    \* per session: the namespace start_iperf_s was given
    client,      \* per session: the client process
    clientArgs,  \* per session: the address and namespace run_iperf was given
    output,      \* per session: what the client's stdout pipe holds at EOF
    timestamps,  \* timestamps1, timestamps2
    bandwidths,  \* bandwidths1, bandwidths2
    diag,        \* per session: "Error parsing JSON" was printed
    srvCalls,    \* per session: calls of start_iperf_s (each one Popen call)
    cliCalls,    \* per session: calls of run_iperf (each one Popen call)
    parses,      \* per session: calls of parse_iperf_output that ended
    termCalls,   \* per session: calls of terminate on the server process
    plotCalls,   \* calls of plot_bandwidth
    noData,      \* prints of the no-data message
    ylim,        \* the y-axis range plot_bandwidth computed
    given,       \* the document handed to the parser when it is run alone
    steps        \* per session: the steps main has performed, in order

vars == <<pc, raised, globals, locals, duration, ticks, server, serverNs, client,
          clientArgs, output, timestamps, bandwidths, diag, srvCalls, cliCalls,
          parses, termCalls, plotCalls, noData, ylim, given, steps>>

\* The statements of main in program order; LineDone: main has returned.
LineDone == 181
MainOrder == <<139, 150, 151, 154, 156, 159, 160,
                    163, 164, 167, 169, 172, 173, 175, LineDone>>
MainOrderNoTerminate == <<139, 150, 151, 154, 156, 159,
                    163, 164, 167, 169, 172, 173, 175, LineDone>>

Following(order, line) ==
    LET i == CHOOSE k \in 1..Len(order) : order[k] = line IN order[i + 1]

NextLineNoTerminate(line) == Following(MainOrderNoTerminate, line)
\* main with terminate requested before the parse, in both sessions.
MainOrderTerminateFirst == <<139, 150, 151, 154, 156, 160, 159,
                             163, 164, 167, 169, 173, 172, 175, LineDone>>
NextLineTerminateFirst(line) == Following(MainOrderTerminateFirst, line)
\* main starting the first session again after its terminate.
NextLineRetry(line) == IF line = 160 THEN 150 ELSE Following(MainOrder, line)
NextLine(line) == Following(MainOrder, line)

StartLine(s) == IF s = 1 THEN 150 ELSE 163
WarmUpLine(s) == IF s = 1 THEN 151 ELSE 164
ClientLine(s) == IF s = 1 THEN 154 ELSE 167
WaitLine(s) == IF s = 1 THEN 156 ELSE 169
ParseLine(s) == IF s = 1 THEN 159 ELSE 172
TermLine(s) == IF s = 1 THEN 160 ELSE 173

\* Lines 137-147, in order: server_macsec and server_plain are assigned twice.
Config ==
    LET a == [server_macsec |-> "ip_macsec", server_plain |-> "ip_plain",
              namespace_macsec |-> "", namespace_plain |-> ""]
        b == [a EXCEPT !.namespace_macsec = "cli_ns_macsec",
                       !.namespace_plain = "cli_ns_plain"]
    IN [b EXCEPT !.server_macsec = "srv_ns_macsec", !.server_plain = "srv_ns_plain"]

NoLocals == [server_macsec |-> "", server_plain |-> "",
             namespace_macsec |-> "", namespace_plain |-> ""]
NoArgs == [server_ip |-> "", namespace |-> ""]

\* Lines 150 and 163: the name given to start_iperf_s.
ServerName(s) == IF s = 1 THEN "server1" ELSE "server2"
\* Lines 154 and 167: the arguments of run_iperf.
ClientCall(s, l) ==
    [server_ip |-> l.server_macsec,
     namespace |-> IF s = 1 THEN l.namespace_macsec ELSE l.namespace_plain]

\* Line 175.
HasDataFirstOnly(ts1, bw1, ts2, bw2) == ts1 # <<>> /\ bw1 # <<>>
HasData(ts1, bw1, ts2, bw2) ==
    ts1 # <<>> /\ bw1 # <<>> /\ ts2 # <<>> /\ bw2 # <<>>

\* An exception raised by Popen (lines 46 and 51) is not caught anywhere.
SpawnErrorSwallowed(line) == [raised |-> "none", pc |-> NextLine(line)]
SpawnError(line) == [raised |-> "OSError(Popen)", pc |-> line]

Running == raised = "none"

\* Lines 149-160 and 162-173: the steps of one session with `d` as duration.
SessionSteps(d) ==
    <<"server", "warmup", "client">> \o [i \in 1..d |-> "tick"]
        \o <<"parse", "terminate">>
Did(s, step) == steps' = [steps EXCEPT ![s] = Append(@, step)]

\* Line 56: the loop over process.stdout ends when the stream is at its end.
StreamOpened(s) == client[s] # "none"
StreamEnded(s) == client[s] = "eof"

ProcState ==
    <<server, serverNs, client, clientArgs, output, srvCalls, cliCalls>>
Results == <<timestamps, bandwidths, diag, parses, plotCalls, noData, ylim>>

TypeOK ==
    /\ raised \in {"none", "ValueError", "NameError", "OSError(Popen)",
                   "AttributeError", "TypeError", "UnicodeDecodeError",
                   "OSError(kill)"}
    /\ globals \subseteq {"server1", "server2"}
    /\ duration \in 0..MaxDuration /\ ticks \in 0..MaxDuration
    /\ \A s \in Sessions :
        /\ server[s] \in {"none", "running", "exited", "terminated"}
        /\ client[s] \in {"none", "running", "eof"}
        /\ Len(timestamps[s]) = Len(bandwidths[s])

Init ==
    /\ pc = 139 /\ raised = "none"
    /\ globals \in SUBSET {"server1", "server2"}
    /\ locals = NoLocals /\ duration = 0 /\ ticks = 0
    /\ server = [s \in Sessions |-> "none"]
    /\ serverNs = [s \in Sessions |-> ""]
    /\ client = [s \in Sessions |-> "none"]
    /\ clientArgs = [s \in Sessions |-> NoArgs]
    /\ output = [s \in Sessions |-> NoOutput]
    /\ timestamps = [s \in Sessions |-> <<>>]
    /\ bandwidths = [s \in Sessions |-> <<>>]
    /\ diag = [s \in Sessions |-> FALSE]
    /\ srvCalls = [s \in Sessions |-> 0]
    /\ cliCalls = [s \in Sessions |-> 0]
    /\ parses = [s \in Sessions |-> 0]
    /\ termCalls = [s \in Sessions |-> 0]
    /\ plotCalls = 0 /\ noData = 0 /\ ylim = NoYLim
    /\ given = NoOutput
    /\ steps = [s \in Sessions |-> <<>>]

\* Lines 137-147: int(input(...)) and the configuration.
Prompt ==
    /\ Running /\ pc = 139
    /\ \/ \E d \in 0..MaxDuration :
            /\ duration' = d /\ locals' = Config /\ pc' = NextLine(pc)
            /\ UNCHANGED raised
       \/ /\ raised' = "ValueError"
          /\ UNCHANGED <<pc, duration, locals>>
    /\ UNCHANGED <<globals, ticks, ProcState, Results, termCalls, given, steps>>

\* Lines 149-150 and 162-163: start_iperf_s(server1), start_iperf_s(server2).
StartServer(s) ==
    /\ Running /\ pc = StartLine(s)
    /\ \/ /\ ServerName(s) \notin globals
          /\ raised' = "NameError"
          /\ UNCHANGED <<pc, server, serverNs, srvCalls, steps>>
       \/ /\ ServerName(s) \in globals
          /\ server' = [server EXCEPT ![s] = "running"]
          /\ serverNs' = [serverNs EXCEPT ![s] = ServerName(s)]
          /\ srvCalls' = [srvCalls EXCEPT ![s] = @ + 1]
          /\ pc' = NextLine(pc)
          /\ Did(s, "server")
          /\ UNCHANGED raised
       \/ /\ ServerName(s) \in globals
          /\ srvCalls' = [srvCalls EXCEPT ![s] = @ + 1]
          /\ raised' = SpawnError(pc).raised /\ pc' = SpawnError(pc).pc
          /\ UNCHANGED <<server, serverNs, steps>>
    /\ UNCHANGED <<globals, locals, duration, ticks, client, clientArgs, output,
                   cliCalls, Results, termCalls, given>>

\* Lines 151 and 164: time.sleep(1).
WarmUp(s) ==
    /\ Running /\ pc = WarmUpLine(s)
    /\ pc' = NextLine(pc)
    /\ Did(s, "warmup")
    /\ UNCHANGED <<raised, globals, locals, duration, ticks, ProcState, Results,
                   termCalls, given>>

\* Lines 153-154 and 166-167: run_iperf(...); then the progress loop is entered.
RunClient(s) ==
    /\ Running /\ pc = ClientLine(s)
    /\ \/ /\ client' = [client EXCEPT ![s] = "running"]
          /\ clientArgs' = [clientArgs EXCEPT ![s] = ClientCall(s, locals)]
          /\ cliCalls' = [cliCalls EXCEPT ![s] = @ + 1]
          /\ ticks' = duration
          /\ pc' = NextLine(pc)
          /\ Did(s, "client")
          /\ UNCHANGED raised
       \/ /\ cliCalls' = [cliCalls EXCEPT ![s] = @ + 1]
          /\ raised' = SpawnError(pc).raised /\ pc' = SpawnError(pc).pc
          /\ UNCHANGED <<client, clientArgs, ticks, steps>>
    /\ UNCHANGED <<globals, locals, duration, server, serverNs, output, srvCalls,
                   Results, termCalls, given>>

\* Lines 156-157 and 169-170: one iteration of the progress loop.
Tick(s) ==
    /\ Running /\ pc = WaitLine(s) /\ ticks > 0
    /\ ticks' = ticks - 1
    /\ Did(s, "tick")
    /\ UNCHANGED <<pc, raised, globals, locals, duration, ProcState, Results,
                   termCalls, given>>

\* The progress loop ends and parse_iperf_output is called.
EndWait(s) ==
    /\ Running /\ pc = WaitLine(s) /\ ticks = 0
    /\ pc' = NextLine(pc)
    /\ UNCHANGED <<raised, globals, locals, duration, ticks, ProcState, Results,
                   termCalls, given, steps>>

\* Lines 159 and 172: parse_iperf_output reads the client's stdout to its end
\* (line 56 blocks until the client has closed it) and decodes what it read.
Parse(s) ==
    /\ Running /\ pc = ParseLine(s) /\ StreamEnded(s)
    /\ LET r == parse_iperf_output(output[s]) IN
        /\ output' = [output EXCEPT ![s] = NoOutput]
        /\ diag' = [diag EXCEPT ![s] = r.printed]
        /\ parses' = [parses EXCEPT ![s] = @ + 1]
        /\ Did(s, "parse")
        /\ \/ /\ r.raised = "none"
              /\ timestamps' = [timestamps EXCEPT ![s] = r.timestamps]
              /\ bandwidths' = [bandwidths EXCEPT ![s] = r.bandwidths]
              /\ pc' = NextLine(pc)
              /\ UNCHANGED raised
           \/ /\ r.raised # "none"
              /\ raised' = r.raised
              /\ UNCHANGED <<pc, timestamps, bandwidths>>
    /\ UNCHANGED <<globals, locals, duration, ticks, server, serverNs, client,
                   clientArgs, srvCalls, cliCalls, termCalls, plotCalls, noData,
                   ylim, given>>

\* Lines 160 and 173: server_proc.terminate().  Popen.terminate does nothing
\* for a process whose exit it has seen; otherwise it sends SIGTERM with
\* os.kill, whose OSError is raised to the caller.
Terminate(s) ==
    /\ Running /\ pc = TermLine(s)
    /\ termCalls' = [termCalls EXCEPT ![s] = @ + 1]
    /\ Did(s, "terminate")
    /\ \/ /\ server[s] = "running"
          /\ server' = [server EXCEPT ![s] = "terminated"]
          /\ pc' = NextLine(pc)
          /\ UNCHANGED raised
       \/ /\ server[s] = "exited"
          /\ pc' = NextLine(pc)
          /\ UNCHANGED <<raised, server>>
       \/ /\ server[s] = "running"
          /\ raised' = "OSError(kill)"
          /\ UNCHANGED <<pc, server>>
    /\ UNCHANGED <<globals, locals, duration, ticks, serverNs, client, clientArgs,
                   output, srvCalls, cliCalls, Results, given>>

\* Lines 175-178.
Decide ==
    /\ Running /\ pc = 175
    /\ \/ /\ HasData(timestamps[1], bandwidths[1], timestamps[2], bandwidths[2])
          /\ plotCalls' = plotCalls + 1
          /\ LET p == plot_bandwidth(timestamps[1], bandwidths[1],
                                     timestamps[2], bandwidths[2]) IN
                /\ ylim' = p
                /\ raised' = p.raised
                /\ pc' = IF p.raised = "none" THEN NextLine(pc) ELSE pc
          /\ UNCHANGED noData
       \/ /\ ~HasData(timestamps[1], bandwidths[1], timestamps[2], bandwidths[2])
          /\ noData' = noData + 1
          /\ pc' = NextLine(pc)
          /\ UNCHANGED <<raised, plotCalls, ylim>>
    /\ UNCHANGED <<globals, locals, duration, ticks, ProcState, timestamps,
                   bandwidths, diag, parses, termCalls, given, steps>>

\* The iperf3 client ends and closes its stdout, having written its output.
ClientExit(s) ==
    /\ client[s] = "running"
    /\ client' = [client EXCEPT ![s] = "eof"]
    /\ \E d \in Docs(MaxMainRecords) : output' = [output EXCEPT ![s] = d]
    /\ UNCHANGED <<pc, raised, globals, locals, duration, ticks, server, serverNs,
                   clientArgs, srvCalls, cliCalls, Results, termCalls, given, steps>>

\* The iperf3 server ends by itself (it could not bind, or it was killed).
ServerExit(s) ==
    /\ server[s] = "running"
    /\ server' = [server EXCEPT ![s] = "exited"]
    /\ UNCHANGED <<pc, raised, globals, locals, duration, ticks, serverNs, client,
                   clientArgs, output, srvCalls, cliCalls, Results, termCalls,
                   given, steps>>

Next ==
    \/ Prompt
    \/ \E s \in Sessions : StartServer(s)
    \/ \E s \in Sessions : WarmUp(s)
    \/ \E s \in Sessions : RunClient(s)
    \/ \E s \in Sessions : Tick(s)
    \/ \E s \in Sessions : EndWait(s)
    \/ \E s \in Sessions : Parse(s)
    \/ \E s \in Sessions : Terminate(s)
    \/ Decide
    \/ \E s \in Sessions : ClientExit(s)
    \/ \E s \in Sessions : ServerExit(s)

Spec == Init /\ [][Next]_vars

\* ------------------------------------------- parse_iperf_output on its own
\* main is at line 159 with the first client's pipe at its end, holding any
\* document; `given` keeps the document for the statements about the result.
InitParse ==
    /\ pc = ParseLine(1) /\ raised = "none"
    /\ globals = {"server1", "server2"}
    /\ locals = Config /\ duration \in 0..MaxDuration /\ ticks = 0
    /\ server = [s \in Sessions |-> IF s = 1 THEN "running" ELSE "none"]
    /\ serverNs = [s \in Sessions |-> IF s = 1 THEN ServerName(1) ELSE ""]
    /\ client = [s \in Sessions |-> IF s = 1 THEN "eof" ELSE "none"]
    /\ clientArgs = [s \in Sessions |-> IF s = 1 THEN ClientCall(1, Config) ELSE NoArgs]
    /\ \E d \in Docs(MaxRecords) :
        /\ output = [s \in Sessions |-> IF s = 1 THEN d ELSE NoOutput]
        /\ given = d
    /\ timestamps = [s \in Sessions |-> <<>>]
    /\ bandwidths = [s \in Sessions |-> <<>>]
    /\ diag = [s \in Sessions |-> FALSE]
    /\ srvCalls = [s \in Sessions |-> IF s = 1 THEN 1 ELSE 0]
    /\ cliCalls = [s \in Sessions |-> IF s = 1 THEN 1 ELSE 0]
    /\ parses = [s \in Sessions |-> 0]
    /\ termCalls = [s \in Sessions |-> 0]
    /\ plotCalls = 0 /\ noData = 0 /\ ylim = NoYLim
    /\ steps = [s \in Sessions |->
            IF s = 1 THEN SubSeq(SessionSteps(duration), 1, 3 + duration) ELSE <<>>]

NextParse == Parse(1)

SpecParse == InitParse /\ [][NextParse]_vars

\* ---------------------------------------------- plot_bandwidth on its own
\* main is at line 175 with any two series the parser can have returned:
\* indices increasing, values non-negative, as many indices as values.
GbitValues == {ToGbit(b) : b \in BpsValues}
SeriesValues == SeqsUpTo(GbitValues, MaxSeries)

InitPlot ==
    /\ pc = 175 /\ raised = "none"
    /\ globals = {"server1", "server2"}
    /\ locals = Config /\ duration \in 0..MaxDuration /\ ticks = 0
    /\ server = [s \in Sessions |-> "terminated"]
    /\ serverNs = [s \in Sessions |-> ServerName(s)]
    /\ client = [s \in Sessions |-> "eof"]
    /\ clientArgs = [s \in Sessions |-> ClientCall(s, Config)]
    /\ output = [s \in Sessions |-> NoOutput]
    /\ bandwidths \in [Sessions -> SeriesValues]
    /\ timestamps = [s \in Sessions |-> [i \in 1..Len(bandwidths[s]) |-> i]]
    /\ diag = [s \in Sessions |-> FALSE]
    /\ srvCalls = [s \in Sessions |-> 1]
    /\ cliCalls = [s \in Sessions |-> 1]
    /\ parses = [s \in Sessions |-> 1]
    /\ termCalls = [s \in Sessions |-> 1]
    /\ plotCalls = 0 /\ noData = 0 /\ ylim = NoYLim
    /\ given = NoOutput
    /\ steps = [s \in Sessions |-> SessionSteps(duration)]

NextPlot == Decide

SpecPlot == InitPlot /\ [][NextPlot]_vars

\* ==================================================================== claims
ParseEnded == parses[1] = 1
Recs == given.recs
Carrying == {i \in 1..Len(Recs) : HasField(Recs[i])}
Lacking == {i \in 1..Len(Recs) : ~HasField(Recs[i])}

\* The server of session s was started / its client was started.
ServerStarted(s) == srvCalls[s] = 1 /\ server[s] # "none"
ClientStarted(s) == cliCalls[s] = 1 /\ client[s] # "none"
\* Control has left session s: main went past its last line, or an exception
\* raised in or after the session ended main.
LeftSession(s) == pc > TermLine(s) \/ (raised # "none" /\ pc >= StartLine(s))
\* A Popen call of start_iperf_s or run_iperf produced no process.
SpawnFailed ==
    \E s \in Sessions : \/ srvCalls[s] = 1 /\ server[s] = "none"
                        \/ cliCalls[s] = 1 /\ client[s] = "none"

\* C1 (as claimed): for each session whose server and client were started,
\* once parsing of that session's output has ended in any way and control has
\* left the session, terminate was requested on its server exactly once.
C1_TerminateOnceWhateverParseOutcome ==
    \A s \in Sessions :
        (ServerStarted(s) /\ ClientStarted(s) /\ parses[s] = 1 /\ LeftSession(s))
            => termCalls[s] = 1

\* C2 (as claimed): for a decodable document with N records of which M lack
\* the throughput field, the parser returns N-M samples with the dense indices
\* 1..(N-M).
C2_DenseIndices ==
    (ParseEnded /\ Decodable(given)) =>
        /\ raised = "none"
        /\ timestamps[1] = [k \in 1..(Len(Recs) - Cardinality(Lacking)) |-> k]

\* C2 (amended): for a decodable document with N records of which M lack the
\* throughput field, the parser returns N-M samples in document order, and the
\* index of each sample is the 1-based position of its record in the document:
\* indices are strictly increasing, and a skipped record consumes its slot.
C2_PositionIndices ==
    (ParseEnded /\ Decodable(given)) =>
        /\ raised = "none"
        /\ Len(timestamps[1]) = Len(Recs) - Cardinality(Lacking)
        /\ Len(bandwidths[1]) = Len(Recs) - Cardinality(Lacking)
        /\ \A k \in 1..Len(timestamps[1]) :
            /\ timestamps[1][k] \in Carrying
            /\ bandwidths[1][k] = ToGbit(Recs[timestamps[1][k]].bps)
            /\ k > 1 => timestamps[1][k - 1] < timestamps[1][k]

\* C2 witness: a record lacking the field precedes one carrying it, and the
\* parser has returned.
C2_Witness ==
    /\ ParseEnded /\ Decodable(given) /\ raised = "none"
    /\ Len(Recs) = 3 /\ Lacking = {1} /\ timestamps[1] = <<2, 3>>

\* C3: for a decodable document whose N records all carry the throughput
\* field, the parser returns N samples in document order with indices 1..N,
\* the i-th value being the i-th record's bits_per_second / 1e9 (compared here
\* in kbit/s: the value is held in units of 0.001 Gbit/s = 1000 kbit/s).
C3_AllCarry ==
    (ParseEnded /\ Decodable(given) /\ Lacking = {}) =>
        /\ raised = "none"
        /\ timestamps[1] = [i \in 1..Len(Recs) |-> i]
        /\ Len(bandwidths[1]) = Len(Recs)
        /\ \A i \in 1..Len(Recs) :
            bandwidths[1][i] * 1000 = Recs[i].bps \div (Giga \div 1000000)

C3_Witness ==
    /\ ParseEnded /\ Decodable(given) /\ Lacking = {}
    /\ Len(Recs) = 3 /\ Recs[1].bps # Recs[2].bps /\ Recs[2].bps > 0
    /\ Len(bandwidths[1]) = 3

\* C4 (as claimed): for every output that is malformed or not decodable as
\* the expected document (empty, not JSON, or JSON of another shape), the
\* parser returns two empty sequences and no exception escapes it.
C4_MalformedYieldsEmpty ==
    (ParseEnded /\ ~Decodable(given)) =>
        /\ raised = "none"
        /\ timestamps[1] = <<>> /\ bandwidths[1] = <<>>

\* C5: plot_bandwidth is called only when both sessions produced non-empty
\* sequences, and then the no-data message is not printed; the message is
\* printed only when a session produced an empty sequence, and then
\* plot_bandwidth is not called; neither happens twice, and when main has
\* returned exactly one of the two has happened.
BothNonEmpty ==
    \A s \in Sessions : timestamps[s] # <<>> /\ bandwidths[s] # <<>>
C5_PlotIffBothNonEmpty ==
    /\ plotCalls \in {0, 1} /\ noData \in {0, 1}
    /\ plotCalls = 1 => (BothNonEmpty /\ noData = 0)
    /\ noData = 1 => (~BothNonEmpty /\ plotCalls = 0)
    /\ pc = LineDone => plotCalls + noData = 1

C5_Witness ==
    /\ pc = LineDone /\ plotCalls = 1 /\ noData = 0
    /\ Len(timestamps[1]) = 1 /\ Len(timestamps[2]) = 2

\* C6: the sessions never overlap: whenever the server or the client of
\* session "plain" has been asked for, session "encrypted" has parsed and its
\* server's termination has been requested.
C6_NoOverlap ==
    (srvCalls[2] > 0 \/ cliCalls[2] > 0 \/ server[2] # "none" \/ client[2] # "none")
        => (parses[1] = 1 /\ termCalls[1] = 1 /\ pc > TermLine(1))

C6_Witness == ServerStarted(2) /\ ClientStarted(2) /\ server[1] = "terminated"

\* C7 (as claimed): when the terminate request of session "encrypted" fails,
\* the failure is not propagated: no exception ends main at that line.
C7_TerminateFailureNotPropagated ==
    (pc = TermLine(1) /\ termCalls[1] = 1) => raised = "none"

\* C8: a spawn failure is fatal: it ends main with the error, and from then
\* on nothing is spawned or parsed, plot_bandwidth is not called and the
\* no-data message is not printed.
C8_SpawnFailureFatal ==
    /\ [](SpawnFailed => (raised = "OSError(Popen)" /\ plotCalls = 0 /\ noData = 0))
    /\ [][SpawnFailed => UNCHANGED <<pc, raised, srvCalls, cliCalls, parses,
                                     termCalls, plotCalls, noData>>]_vars

C8_Witness ==
    /\ cliCalls[2] = 1 /\ client[2] = "none" /\ raised = "OSError(Popen)"
    /\ ServerStarted(2) /\ parses[1] = 1

\* C9: the lower y-axis bound plot_bandwidth computes is strictly greater
\* than 0, also when the smallest value is 0.
C9_LowerBoundPositive == ylim.set => ylim.lo > 0

C9_Witness ==
    /\ ylim.set /\ plotCalls = 1
    /\ SeqMin(bandwidths[1]) = 0 /\ SeqMax(bandwidths[2]) > 0

\* C10 (as claimed): once a session's server has been started, termination
\* of it has been requested by the time control leaves the session.
C10_TerminateOnEveryExit ==
    \A s \in Sessions : (ServerStarted(s) /\ LeftSession(s)) => termCalls[s] >= 1

RECURSIVE Count(_, _)
Count(seq, x) ==
    IF seq = <<>> THEN 0
    ELSE (IF Head(seq) = x THEN 1 ELSE 0) + Count(Tail(seq), x)
IsPrefix(a, b) == Len(a) <= Len(b) /\ a = SubSeq(b, 1, Len(a))

\* C11: the steps a session has performed are at every moment an initial part
\* of: start server, warm-up, start client, `duration` ticks, parse, request
\* termination; and a session main has gone past has performed them all.
C11_StepOrder ==
    \A s \in Sessions :
        /\ IsPrefix(steps[s], SessionSteps(duration))
        /\ (Running /\ pc > TermLine(s)) => steps[s] = SessionSteps(duration)

C11_Witness ==
    /\ pc = LineDone /\ duration = 2
    /\ \A s \in Sessions : Len(steps[s]) = 7 /\ Count(steps[s], "tick") = 2

\* The configuration of lines 137-147 by role: the address of line 137/138,
\* the client namespace of line 142/143, the server namespace of line 146/147.
TargetAddress(s) == IF s = 1 THEN "ip_macsec" ELSE "ip_plain"
ClientContext(s) == IF s = 1 THEN "cli_ns_macsec" ELSE "cli_ns_plain"
ListenContext(s) == IF s = 1 THEN "srv_ns_macsec" ELSE "srv_ns_plain"

\* C12 (as claimed): start_iperf_s is given the listen context assigned in
\* main's configuration, so the server start does not fail on the name.
C12_ServerUsesAssignedContext ==
    /\ raised # "NameError"
    /\ \A s \in Sessions : ServerStarted(s) => serverNs[s] = ListenContext(s)

\* C13 (as claimed): each session's client is run against that session's own
\* target address inside that session's own client namespace, and the two
\* clients do not share an address.
C13_ClientUsesOwnTarget ==
    /\ \A s \in Sessions : ClientStarted(s) =>
            /\ clientArgs[s].server_ip = TargetAddress(s)
            /\ clientArgs[s].namespace = ClientContext(s)
    /\ (ClientStarted(1) /\ ClientStarted(2)) =>
            clientArgs[1].server_ip # clientArgs[2].server_ip

\* C14: a parse has ended, and termination has been requested, only for a
\* session whose client has closed its output.
C14_ParseAfterEndOfStream ==
    \A s \in Sessions :
        (parses[s] >= 1 \/ termCalls[s] >= 1 \/ Count(steps[s], "parse") >= 1)
            => client[s] = "eof"

C14_Witness ==
    /\ duration = 2 /\ pc > TermLine(2)
    /\ \A s \in Sessions : parses[s] = 1 /\ termCalls[s] = 1 /\ client[s] = "eof"

\* C15: no retries: each session calls Popen for its server at most once and
\* for its client at most once and parses at most once, so a run spawns at
\* most two servers and two clients.
C15_NoRetries ==
    /\ \A s \in Sessions :
        /\ srvCalls[s] <= 1 /\ cliCalls[s] <= 1 /\ parses[s] <= 1
        /\ Count(steps[s], "server") <= 1 /\ Count(steps[s], "client") <= 1
        /\ Count(steps[s], "parse") <= 1
    /\ srvCalls[1] + srvCalls[2] <= 2 /\ cliCalls[1] + cliCalls[2] <= 2

\* C15 witness: main has returned after a decode failure in the first session
\* and an empty result in the second.
C15_Witness ==
    /\ pc = LineDone /\ diag[1] /\ ~diag[2] /\ timestamps[2] = <<>>
    /\ \A s \in Sessions : srvCalls[s] = 1 /\ cliCalls[s] = 1 /\ parses[s] = 1

\* C16 (as claimed): the y-axis range plot_bandwidth computes is well formed:
\* its lower bound is strictly less than its upper bound.
C16_RangeWellFormed == ylim.set => ylim.lo < ylim.hi

\* C17: whenever the parser returns, its two sequences have the same length
\* and the k-th index is the position of the record the k-th value was taken
\* from; in main one of them is empty exactly when the other is.
C17_PairedSequences ==
    ParseEnded =>
        /\ Len(timestamps[1]) = Len(bandwidths[1])
        /\ (timestamps[1] = <<>>) <=> (bandwidths[1] = <<>>)
        /\ \A k \in 1..Len(timestamps[1]) :
            /\ timestamps[1][k] \in Carrying
            /\ k <= Len(bandwidths[1]) =>
                bandwidths[1][k] * 1000
                    = Recs[timestamps[1][k]].bps \div (Giga \div 1000000)

C17_Witness ==
    /\ ParseEnded /\ raised = "none"
    /\ timestamps[1] = <<1, 3>> /\ Len(bandwidths[1]) = 2
    /\ bandwidths[1][1] # bandwidths[1][2]

====
